---- MODULE Spec2Model ----
(***************************************************************************)
(* Model of the sensor registry of DCC++ BASE STATION                      *)
(* (src/DCCpp_Uno/Sensor.cpp): the singly linked list of Sensor nodes      *)
(* hanging off Sensor::firstSensor, the exponential-smoothing debounce of  *)
(* Sensor::check, the serial command surface of Sensor::parse and the      *)
(* EEPROM persistence of Sensor::load / Sensor::store.                     *)
(*                                                                         *)
(* The linked list is a sequence of entries, head first.  An entry is      *)
(*   [data |-> [snum, pin, pullUp], active, signal]                        *)
(* as struct Sensor.  Serial output is the sequence of tokens printed by   *)
(* the operation that ran last.                                            *)
(***************************************************************************)
EXTENDS Integers, Sequences, FiniteSets

(***************************************************************************)
(* Input domains and bounds of the model.                                  *)
(***************************************************************************)
\* sensor ids a command may carry
IdSet == {5, 7, 9}
\* the ids used where two sensors are enough
IdPair == {5, 7}
\* Arduino pins a sensor may be on
PinSet == {2, 3}
\* <<pin, pullUp>> arguments of a create command: pin 2 without pull-up,
\* pin 3 with it, the pull-up given as a non-zero number other than 1
PinArgs == {<<2, 0>>, <<3, 2>>}
\* the same, the pull-up given as 1
PlainArgs == {<<2, 0>>, <<3, 1>>}
\* <<id, pin, pullUp>> arguments where each id has its own pin
FixedArgs == {<<5, 2, 0>>, <<7, 3, 1>>, <<7, 3, 2>>}
\* Sensor::check runs with freely chosen pin levels at most MaxTicks times
MaxTicks == 3
\* Sensor::check runs with the pin levels held at most MaxHeldTicks times
MaxHeldTicks == 12
\* number of SensorData records the modelled EEPROM region holds
EESize == 3
\* the id used where one sensor is enough
IdOne == {5}
\* in the runs where the pins change level: Sensor::check runs at most
\* MaxFilterTicks times and a pin changes level at most MaxFlips times
MaxFilterTicks == 21
MaxFlips == 2
\* in the runs where the main loop goes on for ever: commands arrive and
\* pins change level only before the pass MaxLiveTicks of Sensor::check
MaxLiveTicks == 4

(***************************************************************************)
(* Arduino levels (Arduino.h: LOW 0, HIGH 1).                              *)
(***************************************************************************)
LOW == 0
HIGH == 1

(***************************************************************************)
(* float signal.  The value x is held as the integer x * SCALE, SCALE      *)
(* being 2^24, the resolution of a float in [0.5, 1).  SENSOR_DECAY is     *)
(* defined in Sensor.h, a constant in (0,1) small enough that several low  *)
(* readings are needed to cross 0.5; it is modelled as the fraction        *)
(* <<numerator, denominator>>, by a faster and a slower value.             *)
(***************************************************************************)
SCALE == 16777216
\* signal=1 (create)
ONE == SCALE
\* tt->signal<0.5
HALF == SCALE \div 2
\* tt->signal>0.99 : 0.99 as a float is 16609444 / 2^24
RELEASE == 16609444
\* SENSOR_DECAY = 0.25: three low readings cross 0.5
FastDecay == <<1, 4>>
\* SENSOR_DECAY = 0.0625: eleven low readings cross 0.5
SlowDecay == <<1, 16>>
DecayValues == {FastDecay, SlowDecay}

VARIABLES
    sensors,    \* the list firstSensor -> nextSensor -> ... as a sequence
    out,        \* Serial tokens printed by the last operation
    hw,         \* pinMode/digitalWrite calls made by the last operation
    eeprom,     \* EEPROM region: record index -> SensorData
    nSensors,   \* EEStore::eeStore->data.nSensors
    eePointer,  \* EEStore::pointer(), in records
    decay,      \* SENSOR_DECAY of this build
    level,      \* the level each pin is held at, in runs that hold the pins
    nticks,     \* number of Sensor::check runs so far
    notes,      \* per id: <Q id> tokens printed since the create that wrote its node
    snap,       \* what the last Sensor::store saw: cursor and records
    scen,       \* progress of the run create(5,2,0), create(7,3,1), passes of check
    last,       \* the operation that ran last, and the node it wrote or unlinked
    hist,       \* per id: what the passes of check read and printed for its node
    nflips      \* number of changes of a pin's level so far

vars == <<sensors, out, hw, eeprom, nSensors, eePointer, decay, level,
          nticks, notes, snap, scen, last, hist, nflips>>

(***************************************************************************)
(* Serial tokens.                                                          *)
(***************************************************************************)
\* Serial.print("<O>")
TokO == [tok |-> "O", args |-> <<>>]
\* Serial.print("<X>")
TokX == [tok |-> "X", args |-> <<>>]
\* "<Q" snum ">" of check, "<Q" snum " " pin " " pullUp ">" of show
TokQ(a) == [tok |-> "Q", args |-> a]

(***************************************************************************)
(* Sensor::get: index of the first node whose snum is n, 0 for NULL.       *)
(***************************************************************************)
\* variant: the walk stops after the first node
GetHeadOnly(list, n) ==
    IF list # <<>> /\ list[1].data.snum = n THEN 1 ELSE 0

Get(list, n) ==
    IF \E i \in 1..Len(list) : list[i].data.snum = n
    THEN CHOOSE i \in 1..Len(list) :
             /\ list[i].data.snum = n
             /\ \A j \in 1..(i - 1) : list[j].data.snum # n
    ELSE 0

\* a node as calloc(1,sizeof(Sensor)) returns it
ZeroNode ==
    [data |-> [snum |-> 0, pin |-> 0, pullUp |-> 0], active |-> FALSE, signal |-> 0]

(***************************************************************************)
(* Sensor::create, the choice of the node tt: a first node for the empty   *)
(* list, a node appended at the tail when get(snum) is NULL, the node      *)
(* get(snum) found otherwise.  alloc is whether calloc returns a node.     *)
(* The result is the list and the index of tt, 0 for NULL.                 *)
(***************************************************************************)
\* variant: a node is allocated without asking get
LocateAlwaysAppend(list, snum, alloc) ==
    IF alloc THEN [list |-> Append(list, ZeroNode), tt |-> Len(list) + 1]
    ELSE [list |-> list, tt |-> 0]

\* variant: the new node is linked in as firstSensor
LocatePrepend(list, snum, alloc) ==
    IF Get(list, snum) # 0 THEN [list |-> list, tt |-> Get(list, snum)]
    ELSE IF alloc THEN [list |-> <<ZeroNode>> \o list, tt |-> 1]
    ELSE [list |-> list, tt |-> 0]

Locate(list, snum, alloc) ==
    IF list = <<>>
    THEN IF alloc THEN [list |-> <<ZeroNode>>, tt |-> 1]
         ELSE [list |-> <<>>, tt |-> 0]
    ELSE IF Get(list, snum) = 0
    THEN IF alloc THEN [list |-> Append(list, ZeroNode), tt |-> Len(list) + 1]
         ELSE [list |-> list, tt |-> 0]
    ELSE [list |-> list, tt |-> Get(list, snum)]

(***************************************************************************)
(* Sensor::create, the fields written into the node tt.                    *)
(***************************************************************************)
\* variant: lines 95-96 left out, active and signal kept
WriteNodeKeepFilter(node, snum, pin, pullUp) ==
    [node EXCEPT !.data = [snum |-> snum, pin |-> pin,
                           pullUp |-> IF pullUp = 0 THEN LOW ELSE HIGH]]

WriteNode(node, snum, pin, pullUp) ==
    [data |-> [snum |-> snum, pin |-> pin,
               pullUp |-> IF pullUp = 0 THEN LOW ELSE HIGH],
     active |-> FALSE,
     signal |-> ONE]

\* pinMode(pin,INPUT); digitalWrite(pin,pullUp): the pull-up is on unless pullUp is 0
PinSetup(pin, pullUp) ==
    [pin |-> pin, mode |-> "INPUT", pull |-> IF pullUp = 0 THEN LOW ELSE HIGH]

(***************************************************************************)
(* Sensor::create(snum, pin, pullUp, v): the list afterwards, the node     *)
(* returned (0 for NULL), what is printed and the pin calls made.          *)
(***************************************************************************)
\* variant: lines 87 and 100 left out, the tokens printed whatever v is
CreateAlwaysAck(list, snum, pin, pullUp, v, alloc) ==
    LET loc == Locate(list, snum, alloc) IN
    IF loc.tt = 0
    THEN [list |-> loc.list, tt |-> 0, out |-> <<TokX>>, hw |-> <<>>]
    ELSE [list |-> [loc.list EXCEPT ![loc.tt] = WriteNode(@, snum, pin, pullUp)],
          tt |-> loc.tt,
          out |-> <<TokO>>,
          hw |-> <<PinSetup(pin, pullUp)>>]

\* variant: lines 97-98 moved before the test of line 86
CreateSetupFirst(list, snum, pin, pullUp, v, alloc) ==
    LET loc == Locate(list, snum, alloc) IN
    IF loc.tt = 0
    THEN [list |-> loc.list, tt |-> 0,
          out |-> IF v = 1 THEN <<TokX>> ELSE <<>>,
          hw |-> <<PinSetup(pin, pullUp)>>]
    ELSE [list |-> [loc.list EXCEPT ![loc.tt] = WriteNode(@, snum, pin, pullUp)],
          tt |-> loc.tt,
          out |-> IF v = 1 THEN <<TokO>> ELSE <<>>,
          hw |-> <<PinSetup(pin, pullUp)>>]

Create(list, snum, pin, pullUp, v, alloc) ==
    LET loc == Locate(list, snum, alloc) IN
    IF loc.tt = 0
    THEN [list |-> loc.list, tt |-> 0,
          out |-> IF v = 1 THEN <<TokX>> ELSE <<>>,
          hw |-> <<>>]
    ELSE [list |-> [loc.list EXCEPT ![loc.tt] = WriteNode(@, snum, pin, pullUp)],
          tt |-> loc.tt,
          out |-> IF v = 1 THEN <<TokO>> ELSE <<>>,
          hw |-> <<PinSetup(pin, pullUp)>>]

(***************************************************************************)
(* Sensor::remove(n): the list without the first node whose snum is n.     *)
(***************************************************************************)
Without(list, i) ==
    [k \in 1..(Len(list) - 1) |-> IF k < i THEN list[k] ELSE list[k + 1]]

\* variant: the nodes behind the one unlinked are lost
RemoveListDropTail(list, n) ==
    IF Get(list, n) = 0 THEN list ELSE SubSeq(list, 1, Get(list, n) - 1)

\* variant: a walk that ends at NULL unlinks the last node
RemoveListLast(list, n) ==
    IF Get(list, n) # 0 THEN Without(list, Get(list, n))
    ELSE IF list = <<>> THEN list ELSE Without(list, Len(list))

RemoveList(list, n) ==
    IF Get(list, n) = 0 THEN list ELSE Without(list, Get(list, n))

\* what Sensor::remove prints
RemoveOut(list, n) ==
    IF Get(list, n) = 0 THEN <<TokX>> ELSE <<TokO>>

(***************************************************************************)
(* Sensor::check, the smoothing                                            *)
(*   signal = signal*(1.0-SENSOR_DECAY) + digitalRead(pin)*SENSOR_DECAY    *)
(* on the scaled value, rounded to the nearest unit; d is SENSOR_DECAY.    *)
(***************************************************************************)
\* variant: the reading added to the signal without the factor 1.0-SENSOR_DECAY
SmoothNoDecay(signal, read, d) ==
    (signal * d[2] + read * SCALE * d[1] + d[2] \div 2) \div d[2]

Smooth(signal, read, d) ==
    (signal * (d[2] - d[1]) + read * SCALE * d[1] + d[2] \div 2) \div d[2]

(***************************************************************************)
(* Sensor::check, the body of the loop for one node: the node afterwards   *)
(* and what is printed for it.                                             *)
(***************************************************************************)
\* variant: line 58 without the test of active
CheckNodeLevelTriggered(node, read, d) ==
    LET s == Smooth(node.signal, read, d) IN
    IF s < HALF
    THEN [node |-> [node EXCEPT !.signal = s, !.active = TRUE],
          out |-> <<TokQ(<<node.data.snum>>)>>]
    ELSE IF node.active /\ s > RELEASE
    THEN [node |-> [node EXCEPT !.signal = s, !.active = FALSE], out |-> <<>>]
    ELSE [node |-> [node EXCEPT !.signal = s], out |-> <<>>]

\* variant: the reading taken as the signal, unsmoothed
CheckNodeRawRead(node, read, d) ==
    LET s == IF read = LOW THEN 0 ELSE ONE IN
    IF ~node.active /\ s < HALF
    THEN [node |-> [node EXCEPT !.signal = s, !.active = TRUE],
          out |-> <<TokQ(<<node.data.snum>>)>>]
    ELSE IF node.active /\ s > RELEASE
    THEN [node |-> [node EXCEPT !.signal = s, !.active = FALSE], out |-> <<>>]
    ELSE [node |-> [node EXCEPT !.signal = s], out |-> <<>>]

\* variant: lines 63-65 left out
CheckNodeNoRelease(node, read, d) ==
    LET s == Smooth(node.signal, read, d) IN
    IF ~node.active /\ s < HALF
    THEN [node |-> [node EXCEPT !.signal = s, !.active = TRUE],
          out |-> <<TokQ(<<node.data.snum>>)>>]
    ELSE [node |-> [node EXCEPT !.signal = s], out |-> <<>>]

CheckNode(node, read, d) ==
    LET s == Smooth(node.signal, read, d) IN
    IF ~node.active /\ s < HALF
    THEN [node |-> [node EXCEPT !.signal = s, !.active = TRUE],
          out |-> <<TokQ(<<node.data.snum>>)>>]
    ELSE IF node.active /\ s > RELEASE
    THEN [node |-> [node EXCEPT !.signal = s, !.active = FALSE], out |-> <<>>]
    ELSE [node |-> [node EXCEPT !.signal = s], out |-> <<>>]

\* digitalRead(pin) with the pins at the levels lv
DigitalRead(lv, pin) == lv[pin]

RECURSIVE CheckOut(_, _, _, _)
\* what Sensor::check prints for the nodes i, i+1, ... of list
CheckOut(list, lv, d, i) ==
    IF i > Len(list) THEN <<>>
    ELSE CheckNode(list[i], DigitalRead(lv, list[i].data.pin), d).out
             \o CheckOut(list, lv, d, i + 1)

(***************************************************************************)
(* Sensor::check: the loop over all nodes, head first.                     *)
(***************************************************************************)
CheckList(list, lv, d) ==
    [list |-> [i \in 1..Len(list) |->
                  CheckNode(list[i], DigitalRead(lv, list[i].data.pin), d).node],
     out |-> CheckOut(list, lv, d, 1)]

(***************************************************************************)
(* Sensor::show: <X> for the empty list, else one <Q snum pin pullUp> per  *)
(* node, head first.                                                       *)
(***************************************************************************)
\* variant: the walk of line 145 taken from the tail to the head
ShowOutReversed(list) ==
    IF list = <<>> THEN <<TokX>>
    ELSE [i \in 1..Len(list) |->
             TokQ(<<list[Len(list) + 1 - i].data.snum, list[Len(list) + 1 - i].data.pin,
                    list[Len(list) + 1 - i].data.pullUp>>)]

\* variant: lines 140-143 left out
ShowOutNoEmptyTest(list) ==
    [i \in 1..Len(list) |->
        TokQ(<<list[i].data.snum, list[i].data.pin, list[i].data.pullUp>>)]

ShowOut(list) ==
    IF list = <<>> THEN <<TokX>>
    ELSE [i \in 1..Len(list) |->
             TokQ(<<list[i].data.snum, list[i].data.pin, list[i].data.pullUp>>)]

(***************************************************************************)
(* EEPROM.  The region holds EESize records of sizeof(SensorData) bytes;   *)
(* the cursor EEStore::pointer() counts records.  A record never written   *)
(* is Erased.                                                              *)
(***************************************************************************)
Erased == [snum |-> -1, pin |-> -1, pullUp |-> -1]

\* the records of list, head first
Records(list) == [i \in 1..Len(list) |-> list[i].data]

(***************************************************************************)
(* Sensor::store: EEPROM.put of every node's data from the cursor p on,    *)
(* and the count left in nSensors (set to 0, then ++ per node).            *)
(***************************************************************************)
StoreCells(ee, p, list) ==
    [a \in DOMAIN ee |->
        IF p <= a /\ a < p + Len(list) THEN list[a - p + 1].data ELSE ee[a]]

\* variant: line 201 left out
StoreCountNoReset(n0, list) == n0 + Len(list)

StoreCount(n0, list) == 0 + Len(list)

(***************************************************************************)
(* Sensor::load: for i = 0 .. n-1, EEPROM.get at the cursor, create with   *)
(* v = 0, advance.  fails is the set of the i whose calloc, if create      *)
(* calls it, returns NULL.  The result is the list, the pin calls made,    *)
(* the ids whose node create wrote and what is printed.                    *)
(***************************************************************************)
\* the v of the call create(data.snum,data.pin,data.pullUp) of line 190: the
\* default of the declaration in Sensor.h, no acknowledgment
LoadVerbosity == 0

RECURSIVE LoadFrom(_, _, _, _, _, _)
LoadFrom(list, ee, p, n, fails, i) ==
    IF i >= n THEN [list |-> list, hw |-> <<>>, ids |-> {}, out |-> <<>>]
    ELSE LET r == ee[p + i]
             c == Create(list, r.snum, r.pin, r.pullUp, LoadVerbosity, i \notin fails)
             rest == LoadFrom(c.list, ee, p, n, fails, i + 1)
         IN [list |-> rest.list, hw |-> c.hw \o rest.hw,
             ids |-> (IF c.tt # 0 THEN {r.snum} ELSE {}) \cup rest.ids,
             out |-> c.out \o rest.out]

\* variant: line 191 left out, every get reads the first record
LoadListNoAdvance(list, ee, p, n, fails) ==
    IF n = 0 THEN [list |-> list, hw |-> <<>>, ids |-> {}, out |-> <<>>]
    ELSE LoadFrom(list, [a \in DOMAIN ee |-> ee[p]], p, n, fails, 0)

LoadList(list, ee, p, n, fails) == LoadFrom(list, ee, p, n, fails, 0)

(***************************************************************************)
(* History kept beside the program state.                                  *)
(*   notes: for each id, the <Q id> tokens check printed since the create  *)
(*          that last wrote its node;                                      *)
(*   snap:  the cursor and the records the last store saw, and whether a   *)
(*          node was active then;                                          *)
(*   scen:  how far the run so far follows create(5,2,0), create(7,3,1)    *)
(*          and then passes of check with pin 2 LOW and pin 3 HIGH:        *)
(*          0 at the start, 1 and 2 after the creates, 2 + k after k       *)
(*          passes, OffScenario once it has left this path;                *)
(*   last:  the operation that ran last: "create" (a node appended),       *)
(*          "overwrite" (create on an id in the list), "nomem" (create     *)
(*          whose calloc failed), "remove", "notfound" (remove of an id    *)
(*          not in the list), "check", "show", "invalid", "store", "load", *)
(*          "cursor"; the index of the node it wrote or unlinked; and its  *)
(*          arguments: <<n, s, m, a>> of a create, a = 1 unless calloc     *)
(*          would return NULL, <<n>> of a remove, the number of failing    *)
(*          callocs of a load and the length of the list it began with;    *)
(*   hist:  for each id in the list, in the runs that keep it,             *)
(*          armed:  since the last <Q id> a create wrote the node or a     *)
(*                  pass of check left its signal above 0.99,              *)
(*          lowrun: the <Q id> printed, counted to 2, since a pass read    *)
(*                  its pin HIGH or the id came into the list,             *)
(*          lows:   the LOW readings of its pin, counted to 2, since a     *)
(*                  create or a pass left its signal at 1.0.               *)
(***************************************************************************)
Did(op, at, args) == [op |-> op, at |-> at, args |-> args]

NoSnap == [valid |-> FALSE, start |-> 0, recs |-> <<>>, filtered |-> FALSE]

NotesAfterCheck(list, lv, d, h) ==
    [id \in DOMAIN h |->
        IF Get(list, id) = 0 THEN h[id]
        ELSE LET node == list[Get(list, id)]
             IN h[id] + Len(CheckNode(node, DigitalRead(lv, node.data.pin), d).out)]

OffScenario == 0 - 1

ScenAfterCreate(sc, n, s, m, made) ==
    IF made /\ sc = 0 /\ <<n, s, m>> = <<5, 2, 0>> THEN 1
    ELSE IF made /\ sc = 1 /\ <<n, s, m>> = <<7, 3, 1>> THEN 2
    ELSE OffScenario

ScenAfterCheck(sc, lv) ==
    IF sc >= 2 /\ lv[2] = LOW /\ lv[3] = HIGH THEN sc + 1 ELSE OffScenario

\* hist of an id whose node no pass of check has read yet, or not in the list
HistZero == [armed |-> TRUE, lowrun |-> 0, lows |-> 0]

\* hist after a create has written the nodes of ids
HistAfterCreate(h, ids) ==
    [id \in DOMAIN h |->
        IF id \in ids THEN [h[id] EXCEPT !.armed = TRUE, !.lows = 0] ELSE h[id]]

\* hist after a pass of check that read the levels lv, left the list list
\* and printed o
HistAfterCheck(h, list, o, lv) ==
    [id \in DOMAIN h |->
        IF \A i \in 1..Len(list) : list[i].data.snum # id THEN h[id]
        ELSE LET node == list[CHOOSE i \in 1..Len(list) : list[i].data.snum = id]
                 read == lv[node.data.pin]
                 printed == Cardinality({k \in 1..Len(o) :
                                            o[k] = [tok |-> "Q", args |-> <<id>>]})
             IN [armed |-> IF printed > 0 THEN FALSE
                           ELSE IF node.signal > RELEASE THEN TRUE
                           ELSE h[id].armed,
                 lowrun |-> IF read = HIGH THEN 0
                            ELSE IF h[id].lowrun + printed < 2
                            THEN h[id].lowrun + printed ELSE 2,
                 lows |-> IF node.signal = ONE THEN 0
                          ELSE IF read = HIGH THEN h[id].lows
                          ELSE IF h[id].lows < 2 THEN h[id].lows + 1 ELSE 2]]

(***************************************************************************)
(* The state after construction: Sensor::firstSensor = NULL, nothing       *)
(* printed, an erased EEPROM region with the cursor at its start.          *)
(***************************************************************************)
InitCommon ==
    /\ sensors = <<>>
    /\ out = <<>>
    /\ hw = <<>>
    /\ eePointer = 0
    /\ nticks = 0
    /\ notes = [id \in IdSet |-> 0]
    /\ snap = NoSnap
    /\ scen = 0
    /\ last = Did("init", 0, <<>>)
    /\ hist = [id \in IdSet |-> HistZero]
    /\ nflips = 0

\* runs of a few passes of check: the faster SENSOR_DECAY, the pins read freely
Init ==
    /\ InitCommon
    /\ eeprom = [a \in 0..(EESize - 1) |-> Erased]
    /\ nSensors = 0
    /\ decay = FastDecay
    /\ level = [p \in PinSet |-> HIGH]

\* what an earlier session may have left in the EEPROM, from record 0 on
PriorImages ==
    {<<>>,
     <<[snum |-> 7, pin |-> 3, pullUp |-> HIGH], [snum |-> 5, pin |-> 2, pullUp |-> LOW]>>}

\* as Init, the EEPROM and the header count as an earlier session left them
InitPersist ==
    /\ InitCommon
    /\ \E prior \in PriorImages :
           /\ eeprom = [a \in 0..(EESize - 1) |->
                           IF a < Len(prior) THEN prior[a + 1] ELSE Erased]
           /\ nSensors = Len(prior)
    /\ decay = FastDecay
    /\ level = [p \in PinSet |-> HIGH]

\* runs that hold the pins: either SENSOR_DECAY, the pins at any levels
InitHeld ==
    /\ InitCommon
    /\ eeprom = [a \in 0..(EESize - 1) |-> Erased]
    /\ nSensors = 0
    /\ decay \in DecayValues
    /\ level \in [PinSet -> {LOW, HIGH}]

(***************************************************************************)
(* Sensor::parse, case 3: create(n,s,m,1).                                 *)
(***************************************************************************)
ParseCreate(n, s, m, alloc) ==
    LET c == Create(sensors, n, s, m, 1, alloc) IN
    /\ sensors' = c.list
    /\ out' = c.out
    /\ hw' = c.hw
    /\ notes' = IF c.tt # 0 THEN [notes EXCEPT ![n] = 0] ELSE notes
    /\ hist' = IF c.tt # 0 THEN HistAfterCreate(hist, {n}) ELSE hist
    /\ scen' = ScenAfterCreate(scen, n, s, m, c.tt # 0)
    /\ last' = Did(IF c.tt = 0 THEN "nomem"
                   ELSE IF Get(sensors, n) # 0 THEN "overwrite" ELSE "create",
                   c.tt, <<n, s, m, IF alloc THEN 1 ELSE 0>>)
    /\ UNCHANGED <<eeprom, nSensors, eePointer, decay, level, nticks, snap, nflips>>

(***************************************************************************)
(* Sensor::parse, case 1: remove(n).                                       *)
(***************************************************************************)
ParseRemove(n) ==
    /\ sensors' = RemoveList(sensors, n)
    /\ out' = RemoveOut(sensors, n)
    /\ hw' = <<>>
    /\ notes' = [notes EXCEPT ![n] = 0]
    /\ hist' = [hist EXCEPT ![n] = HistZero]
    /\ scen' = OffScenario
    /\ last' = Did(IF Get(sensors, n) = 0 THEN "notfound" ELSE "remove",
                   Get(sensors, n), <<n>>)
    /\ UNCHANGED <<eeprom, nSensors, eePointer, decay, level, nticks, snap, nflips>>

(***************************************************************************)
(* Sensor::parse, case -1: show().                                         *)
(***************************************************************************)
ParseShow ==
    /\ out' = ShowOut(sensors)
    /\ hw' = <<>>
    /\ scen' = OffScenario
    /\ last' = Did("show", 0, <<>>)
    /\ UNCHANGED <<sensors, eeprom, nSensors, eePointer, decay, level, nticks,
                   notes, snap, hist, nflips>>

(***************************************************************************)
(* Sensor::parse, case 2: two arguments.                                   *)
(***************************************************************************)
\* variant: case 2 taken as case 1, remove(n) with the first argument
ParseInvalidAsRemove ==
    \E n \in IdSet :
        /\ sensors' = RemoveList(sensors, n)
        /\ out' = RemoveOut(sensors, n)
        /\ hw' = <<>>
        /\ scen' = OffScenario
        /\ last' = Did("invalid", 0, <<>>)
        /\ UNCHANGED <<eeprom, nSensors, eePointer, decay, level, nticks,
                       notes, snap, hist, nflips>>

ParseInvalid ==
    /\ out' = <<TokX>>
    /\ hw' = <<>>
    /\ scen' = OffScenario
    /\ last' = Did("invalid", 0, <<>>)
    /\ UNCHANGED <<sensors, eeprom, nSensors, eePointer, decay, level, nticks,
                   notes, snap, hist, nflips>>

(***************************************************************************)
(* Sensor::check with the pins at the levels lv.                           *)
(***************************************************************************)
CheckPass(lv) ==
    LET c == CheckList(sensors, lv, decay) IN
    /\ sensors' = c.list
    /\ out' = c.out
    /\ hw' = <<>>
    /\ notes' = NotesAfterCheck(sensors, lv, decay, notes)
    /\ scen' = ScenAfterCheck(scen, lv)
    /\ last' = Did("check", 0, <<>>)
    /\ UNCHANGED <<eeprom, nSensors, eePointer, decay, level, snap, nflips>>

\* a pass of check, counted
CheckStep(lv) ==
    /\ CheckPass(lv)
    /\ nticks' = nticks + 1
    /\ UNCHANGED hist

\* a pass of check, counted, with hist kept of what it read and printed
WatchedStep(lv) ==
    /\ CheckPass(lv)
    /\ nticks' = nticks + 1
    /\ hist' = HistAfterCheck(hist, sensors', out', lv)

\* one pass of the main loop, the pins read at the levels lv
Tick(lv) ==
    /\ nticks < MaxTicks
    /\ CheckStep(lv)

\* one pass of the main loop, the pins read at the levels they are held at
HeldTick ==
    /\ nticks < MaxHeldTicks
    /\ CheckStep(level)

(***************************************************************************)
(* Sensor::store, for a list that fits the region from the cursor on; a    *)
(* session stores once.                                                    *)
(***************************************************************************)
Store ==
    /\ ~snap.valid
    /\ eePointer + Len(sensors) <= EESize
    /\ eeprom' = StoreCells(eeprom, eePointer, sensors)
    /\ nSensors' = StoreCount(nSensors, sensors)
    /\ eePointer' = eePointer + Len(sensors)
    /\ out' = <<>>
    /\ hw' = <<>>
    /\ snap' = [valid |-> TRUE, start |-> eePointer, recs |-> Records(sensors),
                filtered |-> \E i \in 1..Len(sensors) : sensors[i].active]
    /\ scen' = OffScenario
    /\ last' = Did("store", 0, <<>>)
    /\ UNCHANGED <<sensors, decay, level, nticks, notes, hist, nflips>>

(***************************************************************************)
(* Sensor::load, for nSensors written records from the cursor on (the      *)
(* records are assumed well formed: an erased record is not read).         *)
(***************************************************************************)
Load(fails) ==
    /\ eePointer + nSensors <= EESize
    /\ \A a \in eePointer..(eePointer + nSensors - 1) : eeprom[a] # Erased
    /\ LET l == LoadList(sensors, eeprom, eePointer, nSensors, fails) IN
       /\ sensors' = l.list
       /\ hw' = l.hw
       /\ notes' = [id \in IdSet |-> IF id \in l.ids THEN 0 ELSE notes[id]]
       /\ hist' = HistAfterCreate(hist, l.ids)
       /\ out' = l.out
    /\ scen' = OffScenario
    /\ last' = Did("load", 0, <<Cardinality(fails), Len(sensors)>>)
    /\ eePointer' = eePointer + nSensors
    /\ UNCHANGED <<eeprom, nSensors, decay, level, nticks, snap, nflips>>

(***************************************************************************)
(* EEStore::reset and EEStore::advance as the other parts of the sketch    *)
(* call them: the cursor moves to record p.                                *)
(***************************************************************************)
SetCursor(p) ==
    /\ eePointer' = p
    /\ out' = <<>>
    /\ hw' = <<>>
    /\ scen' = OffScenario
    /\ last' = Did("cursor", 0, <<>>)
    /\ UNCHANGED <<sensors, eeprom, nSensors, decay, level, nticks, notes, snap,
                   hist, nflips>>

\* the pins all read LOW
AllLow == [p \in PinSet |-> LOW]

\* the pins all read HIGH
AllHigh == [p \in PinSet |-> HIGH]

(***************************************************************************)
(* The registry under create and remove commands and the main loop: three  *)
(* ids, a pass of check reading the pins all LOW or all HIGH.              *)
(***************************************************************************)
NextRegistry ==
    \/ \E n \in IdSet, a \in PinArgs, alloc \in BOOLEAN :
           ParseCreate(n, a[1], a[2], alloc)
    \/ \E n \in IdSet : ParseRemove(n)
    \/ \E lv \in {AllLow, AllHigh} : Tick(lv)

SpecRegistry == Init /\ [][NextRegistry]_vars

(***************************************************************************)
(* The registry and the EEPROM: two ids, each on its own pin, the pins     *)
(* read LOW.                                                               *)
(***************************************************************************)
NextPersist ==
    \/ \E a \in FixedArgs, alloc \in BOOLEAN : ParseCreate(a[1], a[2], a[3], alloc)
    \/ \E n \in IdPair : ParseRemove(n)
    \/ Tick(AllLow)
    \/ Store
    \/ \E fails \in SUBSET (0..(nSensors - 1)) : Load(fails)
    \/ \E p \in 0..EESize : SetCursor(p)

SpecPersist == InitPersist /\ [][NextPersist]_vars

(***************************************************************************)
(* The registry and the main loop with the pins held: two ids.             *)
(***************************************************************************)
NextHeld ==
    \/ \E n \in IdPair, a \in PlainArgs, alloc \in BOOLEAN :
           ParseCreate(n, a[1], a[2], alloc)
    \/ \E n \in IdPair : ParseRemove(n)
    \/ HeldTick

SpecHeld == InitHeld /\ [][NextHeld]_vars

(***************************************************************************)
(* The pin p changes level between two passes of the main loop.            *)
(***************************************************************************)
Flip(p) ==
    /\ nflips < MaxFlips
    /\ level' = [level EXCEPT ![p] = IF @ = LOW THEN HIGH ELSE LOW]
    /\ nflips' = nflips + 1
    /\ out' = <<>>
    /\ hw' = <<>>
    /\ scen' = OffScenario
    /\ last' = Did("pin", 0, <<p>>)
    /\ UNCHANGED <<sensors, eeprom, nSensors, eePointer, decay, nticks, notes,
                   snap, hist>>

\* one pass of the main loop, the pins read at their levels, hist kept
FilterTick ==
    /\ nticks < MaxFilterTicks
    /\ WatchedStep(level)

\* runs that change the pins: the faster SENSOR_DECAY, the pins at any levels
InitFilter ==
    /\ InitCommon
    /\ eeprom = [a \in 0..(EESize - 1) |-> Erased]
    /\ nSensors = 0
    /\ decay = FastDecay
    /\ level \in [PinSet -> {LOW, HIGH}]

(***************************************************************************)
(* One sensor, created, overwritten and removed, and the main loop, with   *)
(* pins that change level.                                                 *)
(***************************************************************************)
NextFilter ==
    \/ \E n \in IdOne, a \in PlainArgs, alloc \in BOOLEAN :
           ParseCreate(n, a[1], a[2], alloc)
    \/ \E n \in IdOne : ParseRemove(n)
    \/ FilterTick
    \/ \E p \in PinSet : Flip(p)

SpecFilter == InitFilter /\ [][NextFilter]_vars

(***************************************************************************)
(* The main loop going on for ever: passes of check are counted up to      *)
(* MaxLiveTicks; commands and changes of level come before that pass.      *)
(***************************************************************************)
LiveTick ==
    /\ CheckPass(level)
    /\ nticks' = IF nticks < MaxLiveTicks THEN nticks + 1 ELSE nticks
    /\ hist' = HistAfterCheck(hist, sensors', out', level)

NextLive ==
    \/ /\ nticks < MaxLiveTicks
       /\ \/ \E n \in IdOne, a \in PlainArgs, alloc \in BOOLEAN :
                 ParseCreate(n, a[1], a[2], alloc)
          \/ \E n \in IdOne : ParseRemove(n)
          \/ \E p \in PinSet : Flip(p)
    \/ LiveTick

\* loop() calls Sensor::check in every pass
SpecLive == InitFilter /\ [][NextLive]_vars /\ WF_vars(LiveTick)

(***************************************************************************)
(* The registry under every command of Sensor::parse and the main loop:    *)
(* two ids, a pass of check reading the pins all LOW or all HIGH.          *)
(***************************************************************************)
NextShow ==
    \/ \E n \in IdPair, a \in PinArgs, alloc \in BOOLEAN :
           ParseCreate(n, a[1], a[2], alloc)
    \/ \E n \in IdPair : ParseRemove(n)
    \/ ParseShow
    \/ ParseInvalid
    \/ \E lv \in {AllLow, AllHigh} : Tick(lv)

SpecShow == Init /\ [][NextShow]_vars

(***************************************************************************)
(* Claims.  The formulas speak of the list directly, not through the       *)
(* operators above.                                                        *)
(***************************************************************************)
\* the ids in the list
Ids(list) == {list[i].data.snum : i \in 1..Len(list)}

\* the place of id in a list that holds it
Pos(list, id) == CHOOSE i \in 1..Len(list) : list[i].data.snum = id

\* the step is a create command, a remove command
CreateRan == last'.op \in {"create", "overwrite", "nomem"}

RemoveRan == last'.op \in {"remove", "notfound"}

\* how often the token t is in the output o
Count(o, t) == Cardinality({k \in 1..Len(o) : o[k] = t})

\* a node as a create with these arguments leaves it: the pull-up flag as a
\* level, the filter at signal 1.0 and not active
FreshNode(n, pin, m) ==
    [data |-> [snum |-> n, pin |-> pin, pullUp |-> IF m = 0 THEN LOW ELSE HIGH],
     active |-> FALSE,
     signal |-> ONE]

\* C1: whatever creates, removes, loads and passes of check have run since the
\* empty registry, no two nodes of the list carry the same id.
C1_UniqueIds ==
    \A i, j \in 1..Len(sensors) :
        i # j => sensors[i].data.snum # sensors[j].data.snum

\* a load has just written the nodes of two records into a list checked before
C1_Witness ==
    /\ last.op = "load"
    /\ Len(hw) = 2
    /\ Len(sensors) = 2
    /\ nticks > 0

\* C2: a create(id, pin, pullup) whose allocation succeeds leaves a list in
\* which the lookup of id finds a node with the pin supplied, the pull-up
\* supplied (off for 0, on otherwise), signal 1.0 and active false.
C2_CreateThenLookup ==
    [][(CreateRan /\ last'.args[4] = 1) =>
          LET n == last'.args[1] IN
          /\ n \in Ids(sensors')
          /\ LET node == sensors'[Pos(sensors', n)] IN
             /\ node.data.pin = last'.args[2]
             /\ node.data.pullUp \in {LOW, HIGH}
             /\ (node.data.pullUp = HIGH) <=> (last'.args[3] # 0)
             /\ node.signal = ONE
             /\ node.active = FALSE]_vars

\* a create with pull-up 2 has just appended a third node, its pull-up HIGH,
\* behind a node that is active
C2_Witness ==
    /\ last.op = "create"
    /\ last.at = 3
    /\ sensors[1].active
    /\ last.args[3] = 2
    /\ sensors[3] \in {FreshNode(n, 3, 1) : n \in IdSet}

\* C3: a create on an id in the list overwrites in place: as many nodes as
\* before, the node of the id where it was, now with the pin and pull-up of
\* this call and the filter at (1.0, false), every other node as before.
C3_OverwriteInPlace ==
    [][(CreateRan /\ last'.args[1] \in Ids(sensors)) =>
          /\ Len(sensors') = Len(sensors)
          /\ \A k \in 1..Len(sensors) :
                 sensors'[k] = IF sensors[k].data.snum = last'.args[1]
                               THEN FreshNode(last'.args[1], last'.args[2], last'.args[3])
                               ELSE sensors[k]]_vars

\* a create has just overwritten the active second of three nodes, the first
\* and the third still active
C3_Witness ==
    /\ last.op = "overwrite"
    /\ last.at = 2
    /\ Len(sensors) = 3
    /\ sensors[1].active
    /\ sensors[3].active
    /\ sensors[2].signal = ONE

\* C4: a create on an id not in the list, its allocation succeeding, appends
\* one node at the tail; the nodes before it keep order, record and filter.
C4_AppendAtTail ==
    [][(CreateRan /\ last'.args[4] = 1 /\ last'.args[1] \notin Ids(sensors)) =>
          sensors' = Append(sensors,
                            FreshNode(last'.args[1], last'.args[2], last'.args[3]))]_vars

\* a create has just appended a third node behind an active node and a node
\* whose signal has left 1.0
C4_Witness ==
    /\ last.op = "create"
    /\ last.at = 3
    /\ last.args[4] = 1
    /\ sensors[1].active
    /\ sensors[2].signal # ONE
    /\ sensors[3].signal = ONE

\* C5: a remove of an id in the list unlinks the node of that id and no
\* other, the remaining nodes keep order, record and filter, and <O> is
\* printed.
C5_RemoveExisting ==
    [][(RemoveRan /\ last'.args[1] \in Ids(sensors)) =>
          /\ Len(sensors') = Len(sensors) - 1
          /\ \A k \in 1..Len(sensors') :
                 sensors'[k] = IF k < Pos(sensors, last'.args[1]) THEN sensors[k]
                               ELSE sensors[k + 1]
          /\ out' = <<TokO>>]_vars

\* a remove has just unlinked the middle of three nodes, between an active
\* node and a node whose signal has left 1.0
C5_Witness ==
    /\ last.op = "remove"
    /\ last.at = 2
    /\ Len(sensors) = 2
    /\ sensors[1].active
    /\ sensors[2].signal # ONE
    /\ out = <<TokO>>

\* C6: a remove of an id not in the list, the empty list included, leaves
\* the list and every filter as they were and prints <X> and nothing else.
C6_RemoveMissing ==
    [][(RemoveRan /\ last'.args[1] \notin Ids(sensors)) =>
          /\ sensors' = sensors
          /\ out' = <<TokX>>]_vars

\* a remove has just missed in a list of two nodes, the first active
C6_Witness ==
    /\ last.op = "notfound"
    /\ Len(sensors) = 2
    /\ sensors[1].active
    /\ out = <<TokX>>

\* C7: for a node whose pin reads LOW on every pass of check since its create,
\* a pass prints <Q id> once if it turns active from false to true and not at
\* all otherwise, an active node stays active, and the <Q id> printed since
\* the create are none while the node is not active and one from then on.
C7_OneNotification ==
    [][last'.op = "check" =>
          \A i \in 1..Len(sensors) :
              level[sensors[i].data.pin] = LOW =>
                  LET id == sensors[i].data.snum IN
                  /\ Count(out', TokQ(<<id>>)) =
                         (IF ~sensors[i].active /\ sensors'[i].active THEN 1 ELSE 0)
                  /\ sensors[i].active => sensors'[i].active
                  /\ notes'[id] = (IF sensors'[i].active THEN 1 ELSE 0)]_vars

\* a pass of check has just left a node on a LOW pin active with its signal
\* below 0.25, passes after the one that printed its <Q id>
C7_Witness ==
    /\ last.op = "check"
    /\ out = <<>>
    /\ \E i \in 1..Len(sensors) :
           /\ level[sensors[i].data.pin] = LOW
           /\ sensors[i].active
           /\ sensors[i].signal < HALF \div 2
           /\ notes[sensors[i].data.snum] = 1

\* the signal of a fresh node after k passes of check that read LOW
RECURSIVE LowRun(_, _)
LowRun(k, d) == IF k = 0 THEN ONE ELSE Smooth(LowRun(k - 1, d), LOW, d)

\* the scenario has run to its end: create(5,2,0), create(7,3,1) on the empty
\* registry, then ten passes of check with pin 2 LOW and pin 3 HIGH
ScenarioDone == scen = 12

LoadAfterStore ==
    /\ last'.op = "load"
    /\ snap.valid
    /\ sensors = <<>>
    /\ eePointer = snap.start
    /\ nSensors = Len(snap.recs)

\* the list holds the records the store saw, in that order, every filter at
\* signal 1.0 and not active
Reconstructed(list) ==
    /\ Len(list) = Len(snap.recs)
    /\ \A k \in 1..Len(list) :
           /\ list[k].data = snap.recs[k]
           /\ list[k].signal = ONE
           /\ list[k].active = FALSE

C10_StoreWrites ==
    [][last'.op = "store" =>
          /\ \A a \in DOMAIN eeprom :
                 eeprom'[a] = IF eePointer <= a /\ a < eePointer + Len(sensors)
                              THEN sensors[a - eePointer + 1].data
                              ELSE eeprom[a]
          /\ nSensors' = Len(sensors)
          /\ sensors' = sensors]_vars

\* a store has just written the one record of a list with an active node
\* over record 1 of an earlier session, whose header count was 2
C10_Witness ==
    /\ last.op = "store"
    /\ snap.start = 1
    /\ eeprom[0] = [snum |-> 7, pin |-> 3, pullUp |-> HIGH]
    /\ eeprom[1] = [snum |-> 7, pin |-> 3, pullUp |-> HIGH]
    /\ Len(sensors) = 1
    /\ sensors[1].active
    /\ nSensors = 1

\* C11: a create whose calloc fails (the id not in the list, the list empty
\* or not) leaves the list with every record and filter as it was and makes
\* no pin call; any other create leaves the node of the id fully written and
\* has made the pin calls for the pin and pull-up of the call.
C11_AllOrNothing ==
    [][CreateRan =>
          IF last'.args[1] \notin Ids(sensors) /\ last'.args[4] = 0
          THEN /\ sensors' = sensors
               /\ hw' = <<>>
          ELSE /\ last'.args[1] \in Ids(sensors')
               /\ sensors'[Pos(sensors', last'.args[1])] =
                      FreshNode(last'.args[1], last'.args[2], last'.args[3])
               /\ hw' = <<[pin |-> last'.args[2], mode |-> "INPUT",
                           pull |-> IF last'.args[3] = 0 THEN LOW ELSE HIGH]>>]_vars

\* a create whose calloc failed has just left a list of two nodes, the first
\* active, with no pin call made and <X> printed
C11_Witness ==
    /\ last.op = "nomem"
    /\ Len(sensors) = 2
    /\ sensors[1].active
    /\ sensors[2].signal # ONE
    /\ hw = <<>>
    /\ out = <<TokX>>

\* C12: a show on a list that is not empty prints <Q snum pin pullUp> for
\* every node, head first, and leaves the list with every record and filter
\* as it was; a show right after a show prints the same again.
C12_ShowFrame ==
    [][(last'.op = "show" /\ sensors # <<>>) =>
          /\ out' = [k \in 1..Len(sensors) |->
                        [tok |-> "Q",
                         args |-> <<sensors[k].data.snum, sensors[k].data.pin,
                                    sensors[k].data.pullUp>>]]
          /\ sensors' = sensors
          /\ (last.op = "show" => out' = out)]_vars

\* a show has just printed the two nodes of a list, 7 ahead of 5, the first
\* active and the signal of the second off 1.0
C12_Witness ==
    /\ last.op = "show"
    /\ Len(sensors) = 2
    /\ sensors[1].active
    /\ sensors[2].signal # ONE
    /\ out = <<TokQ(<<7, 3, HIGH>>), TokQ(<<5, 2, LOW>>)>>

\* C13: a command of two numbers prints <X> and nothing else, leaves the list
\* with every record and filter as it was and makes no pin call.
C13_TwoArguments ==
    [][last'.op = "invalid" =>
          /\ out' = <<TokX>>
          /\ sensors' = sensors
          /\ hw' = <<>>]_vars

\* a command of two numbers has just been refused with a list of two nodes,
\* the first active
C13_Witness ==
    /\ last.op = "invalid"
    /\ Len(sensors) = 2
    /\ sensors[1].active
    /\ out = <<TokX>>

\* C20: a show on the empty list prints <X> and nothing else; a show on a
\* list that is not empty prints no <X>.
C20_ShowEmpty ==
    [][last'.op = "show" =>
          IF sensors = <<>> THEN out' = <<TokX>>
          ELSE /\ Len(out') = Len(sensors)
               /\ \A k \in 1..Len(out') : out'[k] # TokX]_vars

\* a show has just printed <X> for a list emptied by removes after passes of
\* check
C20_Witness ==
    /\ last.op = "show"
    /\ sensors = <<>>
    /\ out = <<TokX>>
    /\ nticks > 0

\* C14: in a pass of check a node that was active is left not active only
\* with its updated signal above 0.99, and nothing is printed for it then;
\* and a <Q id> is printed only if, since the last <Q id>, a pass left the
\* signal of the node above 0.99 or a create or remove ran on the id.
C14_Hysteresis ==
    [][last'.op = "check" =>
          \A i \in 1..Len(sensors) :
              LET id == sensors[i].data.snum
                  q == Count(out', TokQ(<<id>>))
              IN /\ (sensors[i].active /\ ~sensors'[i].active) =>
                        (sensors'[i].signal > RELEASE /\ q = 0)
                 /\ (sensors[i].active /\ sensors'[i].signal <= RELEASE) =>
                        sensors'[i].active
                 /\ q > 0 => hist[id].armed]_vars

\* a pass of check has just printed the second <Q 5> since the create of the
\* node, which passes before had left not active with its signal above 0.99
C14_Witness ==
    /\ last.op = "check"
    /\ out = <<TokQ(<<5>>)>>
    /\ notes[5] = 2
    /\ sensors[1].active
    /\ sensors[1].signal < HALF

\* C15: a node whose pin has read LOW in at most one pass since a create or
\* a pass left its signal at 1.0, and HIGH in every other pass, is not active
\* and no <Q id> has been printed for it.
C15_Glitch ==
    \A i \in 1..Len(sensors) :
        hist[sensors[i].data.snum].lows <= 1 =>
            /\ ~sensors[i].active
            /\ notes[sensors[i].data.snum] = 0

\* after one LOW reading and HIGH readings since, the signal of a node is
\* back above 0.99 without the node having been active
C15_Witness ==
    /\ last.op = "check"
    /\ Len(sensors) = 1
    /\ hist[5].lows = 1
    /\ sensors[1].signal > RELEASE
    /\ sensors[1].signal < ONE
    /\ ~sensors[1].active
    /\ notes[5] = 0

\* C16: the signal of every node in the list is at least 0.0 and at most 1.0.
C16_SignalRange ==
    \A i \in 1..Len(sensors) :
        /\ 0 <= sensors[i].signal
        /\ sensors[i].signal <= ONE

\* a node that LOW readings took below 0.25 is still active while HIGH
\* readings have taken its signal back above 0.5, short of 0.99
C16_Witness ==
    /\ last.op = "check"
    /\ nflips > 0
    /\ Len(sensors) = 1
    /\ level[sensors[1].data.pin] = HIGH
    /\ sensors[1].active
    /\ sensors[1].signal > HALF
    /\ sensors[1].signal < RELEASE
    /\ nticks >= 8

\* C17: a create command prints one token, <O> if the node of the id was
\* written and <X> if calloc failed; a load prints nothing, whether the
\* callocs of its creates fail or not.
C17_Acknowledgment ==
    [][/\ CreateRan =>
              out' = IF last'.args[1] \in Ids(sensors) \/ last'.args[4] = 1
                     THEN <<TokO>> ELSE <<TokX>>
       /\ last'.op = "load" => out' = <<>>]_vars

\* a load of two records into the empty list, one calloc failing, has just
\* left one node and printed nothing
C17_Witness ==
    /\ last = Did("load", 0, <<1, 0>>)
    /\ nSensors = 2
    /\ Len(sensors) = 1
    /\ Len(hw) = 1
    /\ out = <<>>

\* the node of id in a list that holds it
NodeOf(list, id) == list[Pos(list, id)]

\* no command and no change of level is to come: the list stays as it is but
\* for the passes of check, and every pass reads the pins at these levels
Settled == nticks = MaxLiveTicks

\* C18: once the list and the levels are settled, a node that is active and
\* whose pin reads HIGH is in the end not active, and a node that is not
\* active and whose pin reads LOW is in the end active, in a state whose
\* pass printed its <Q id>.
C18_Liveness ==
    \A id \in IdOne :
        /\ (/\ Settled
            /\ id \in Ids(sensors)
            /\ NodeOf(sensors, id).active
            /\ level[NodeOf(sensors, id).data.pin] = HIGH)
               ~> (id \in Ids(sensors) /\ ~NodeOf(sensors, id).active)
        /\ (/\ Settled
            /\ id \in Ids(sensors)
            /\ ~NodeOf(sensors, id).active
            /\ level[NodeOf(sensors, id).data.pin] = LOW)
               ~> (/\ id \in Ids(sensors)
                   /\ NodeOf(sensors, id).active
                   /\ Count(out, TokQ(<<id>>)) = 1)

\* with the list and the levels settled, a node that was active has been
\* left not active by a pass that read HIGH
C18_Witness ==
    /\ Settled
    /\ last.op = "check"
    /\ Ids(sensors) = {5}
    /\ notes[5] = 1
    /\ ~sensors[1].active
    /\ sensors[1].signal > RELEASE
    /\ level[sensors[1].data.pin] = HIGH

\* C19: a node written by a create after a <Q id> that no HIGH reading has
\* followed, its pin reading LOW from then on, has in the end a second
\* <Q id> printed for it, still without a HIGH reading.
C19_Rearm ==
    \A id \in IdOne :
        (/\ Settled
         /\ id \in Ids(sensors)
         /\ level[NodeOf(sensors, id).data.pin] = LOW
         /\ hist[id].lowrun = 1
         /\ notes[id] = 0)
            ~> (/\ id \in Ids(sensors)
                /\ hist[id].lowrun = 2
                /\ notes[id] = 1
                /\ Count(out, TokQ(<<id>>)) = 1)

\* a pass has just printed the second <Q 5> since a pass last read the pin
\* of sensor 5 HIGH, the first since the create that overwrote its node
C19_Witness ==
    /\ last.op = "check"
    /\ out = <<TokQ(<<5>>)>>
    /\ Ids(sensors) = {5}
    /\ sensors[1].active
    /\ hist[5].lowrun = 2
    /\ notes[5] = 1
    /\ nflips = 0

====
